---------------------------- MODULE Spec2Model ----------------------------
(***************************************************************************)
(* SwotDB: the tile catalog (SWOTSpatialIndex, src/src/index.py) and the   *)
(* line-range merge of the query engine (src/SwotDB/src/query.py).         *)
(*                                                                         *)
(* Paths are sequences of path components (/a/c/f2 is <<"a","c","f2">>).   *)
(* An optional value is a sequence of length 0 (None) or 1 (the value).    *)
(* Longitudes/latitudes are whole degrees, times are positive integers.    *)
(***************************************************************************)
EXTENDS Integers, Sequences, FiniteSets, TLC

VARIABLES
    metadata,          \* self.metadata: tile id -> tile
    spatial_idx,       \* self.spatial_idx: the entries <<id, bbox>> of the R-tree
    file_counter,      \* self.file_counter (the next tile id)
    indexed_files,     \* self.indexed_files
    tile_size,         \* self.tile_size
    base_path,         \* self.base_path (<<>> is None)
    autosave_interval, \* self.autosave_interval
    files_since_save,  \* self.files_since_save
    disk,              \* the file <index_file>_metadata.pkl
    tmp_exists,        \* whether <index_file>_metadata.pkl.tmp exists
    pc,                \* where the writer is: "idle", "batch" or "saving"
    pending,           \* add_files_from_directory: new_files still to index
    batch_tile_size,   \* add_files_from_directory: its tile_size argument
    last,              \* the last call of the writer and how it ended
    observed,          \* what a reader of the snapshot file saw last
    completed,         \* history: paths on which add_file ran to completion
    disk_before,       \* history: the snapshot file when save() was entered
    faults,            \* history: the failures of the environment so far
    merge_in,          \* merge_line_ranges: its argument
    merge_out          \* merge_line_ranges: its result (once run)

\* The index object, the files it writes, the running call, the histories.
catalog == <<metadata, spatial_idx, file_counter, indexed_files, tile_size,
             base_path>>

vars == <<metadata, spatial_idx, file_counter, indexed_files, tile_size,
          base_path, autosave_interval, files_since_save, disk, tmp_exists,
          pc, pending, batch_tile_size, last, observed, completed,
          disk_before, faults, merge_in, merge_out>>

---------------------------------------------------------------------------
(* Bounds of the model.                                                    *)

\* No tile id beyond MaxId is allocated.
MaxId == 3

\* The environment fails at most MaxFaults times: a file that cannot be
\* opened or read, a snapshot or temporary file that cannot be written.
MaxFaults == 1

\* merge_line_ranges is given at most MaxRanges ranges over lines 0..MaxLine.
MaxRanges == 3
MaxLine == 4

---------------------------------------------------------------------------
(* Values.                                                                 *)

NoPath == <<>>
NoArg == <<>>

SetMin(S) == CHOOSE x \in S : \A y \in S : x <= y
SetMax(S) == CHOOSE x \in S : \A y \in S : x >= y
Min2(a, b) == IF a <= b THEN a ELSE b
Max2(a, b) == IF a >= b THEN a ELSE b

\* The swath files the model ingests.
F1 == <<"a", "f1">>
F2 == <<"a", "c", "f2">>
F3 == <<"b", "f1">>
Files == {F1, F2, F3}

\* Swath files of 1 .. MaxId lines, for the tile loop.
SwathNames == <<"s1", "s2", "s3", "s4", "s5">>
Swath(n) == <<"s", SwathNames[n]>>
Swaths == {Swath(n) : n \in 1 .. MaxId}
SwathLength(p) == CHOOSE n \in 1 .. MaxId : Swath(n) = p

\* What the swath file reader returns for a file: per line the latitude
\* extent and the pixel longitudes, and the file's time extent. The pixels
\* of F2 lie on both sides of the +-180 degree seam.
Content(p) ==
    CASE p = F1 -> [lines |-> << [lat |-> <<0, 10>>,  lon |-> {0, 10}],
                                 [lat |-> <<10, 20>>, lon |-> {5, 10}] >>,
                    time  |-> <<1, 2>>]
      [] p = F2 -> [lines |-> << [lat |-> <<0, 10>>,  lon |-> {170, 175, -175, -170}],
                                 [lat |-> <<10, 20>>, lon |-> {170, 180, -180, -170}] >>,
                    time  |-> <<2, 3>>]
      [] p \in Swaths ->
                   [lines |-> [i \in 1 .. SwathLength(p) |->
                                 [lat |-> <<i, i + 1>>, lon |-> {i, i + 1}]],
                    time  |-> <<1, 1>>]
      [] OTHER  -> [lines |-> << [lat |-> <<0, 10>>,  lon |-> {20, 30}] >>,
                    time  |-> <<3, 3>>]

\* tile_size of a new index, tile_size argument of a call, autosave_interval
\* of a new or loaded index, new_base_path of a remap.
TileSizes == {1}
TileSizeArgs == {NoArg, <<2>>}
AutosaveIntervals == {2}
NewBases == {<<"b">>}

\* Path(p).parent
Parent(p) == SubSeq(p, 1, Len(p) - 1)

\* Path(p).relative_to(base) succeeds
IsRelativeTo(p, base) ==
    /\ Len(base) <= Len(p)
    /\ SubSeq(p, 1, Len(base)) = base

\* new_base / Path(p).relative_to(old_base)
Rebase(p, old_base, new_base) ==
    new_base \o SubSeq(p, Len(old_base) + 1, Len(p))

---------------------------------------------------------------------------
(* The bounding-box index (rtree) as the catalog uses it.                  *)

\* An index that takes any box.
BoxUnchecked(bbox) == TRUE

\* rtree refuses a box with a minimum above its maximum (RTreeError).
BoxValid(bbox) == bbox[1] <= bbox[3] /\ bbox[2] <= bbox[4]

\* self.spatial_idx.insert(tile_id, bbox)
IdxInsert(idx, id, bbox) == idx \cup {<<id, bbox>>}

\* An intersection test that leaves out the boxes that only touch.
IntersectsInside(b, q) ==
    /\ b[1] < q[3] /\ q[1] < b[3]
    /\ b[2] < q[4] /\ q[2] < b[4]

\* Boxes (minx, miny, maxx, maxy) intersect; touching counts.
Intersects(b, q) ==
    /\ b[1] <= q[3] /\ q[1] <= b[3]
    /\ b[2] <= q[4] /\ q[2] <= b[4]

\* The ids of a set of index entries in increasing order, one per entry.
RECURSIVE IdSeq(_)
IdSeq(entries) ==
    IF entries = {} THEN <<>>
    ELSE LET e == CHOOSE x \in entries : \A y \in entries : x[1] <= y[1]
         IN <<e[1]>> \o IdSeq(entries \ {e})

\* list(self.spatial_idx.intersection(bbox))
IdxIntersection(idx, q) == IdSeq({e \in idx : Intersects(e[2], q)})

---------------------------------------------------------------------------
(* The tile builder and add_file.                                          *)

\* A catalog under construction inside add_file: md, idx, fc; err once an
\* exception has been raised, hit when it was a failure to read the file.
Core(md, idx, fc) ==
    [md |-> md, idx |-> idx, fc |-> fc, err |-> FALSE, hit |-> FALSE]

\* A counter that is not advanced.
SameId(fc) == fc

\* tile_id = self.file_counter; self.file_counter += 1
NextId(fc) == fc + 1

\* A tile builder that stores the metadata before it inserts the box.
AddTileStoringFirst(c, tile) ==
    [c EXCEPT !.fc  = NextId(c.fc),
              !.err = ~BoxValid(tile.bbox),
              !.idx = IF BoxValid(tile.bbox)
                      THEN IdxInsert(c.idx, c.fc, tile.bbox) ELSE c.idx,
              !.md  = [i \in DOMAIN c.md \cup {c.fc} |->
                          IF i = c.fc THEN tile ELSE c.md[i]]]

\* _add_tile: the id is taken and the counter advanced, then the box is
\* inserted in the R-tree (which raises on an invalid box), then the
\* metadata is stored.
AddTile(c, tile) ==
    LET tile_id == c.fc IN
    IF ~BoxValid(tile.bbox)
    THEN [c EXCEPT !.fc = NextId(tile_id), !.err = TRUE]
    ELSE [c EXCEPT !.fc  = NextId(tile_id),
                   !.idx = IdxInsert(c.idx, tile_id, tile.bbox),
                   !.md  = [i \in DOMAIN c.md \cup {tile_id} |->
                               IF i = tile_id THEN tile ELSE c.md[i]]]

Tile(file, s, e, lat_min, lat_max, lon_min, lon_max, time) ==
    [file       |-> file,
     line_range |-> <<s, e>>,
     bbox       |-> <<lon_min, lat_min, lon_max, lat_max>>,
     time_range |-> time]

\* if lon_max - lon_min > 180
CrossesDateline(lon_min, lon_max) == lon_max - lon_min > 180

\* The second tile of a tile that crosses the dateline, after the first.
SecondHalf(c1, second) == IF c1.err THEN c1 ELSE AddTile(c1, second)

\* The tiles add_file makes of the lines [s, e) of file p with the extents
\* lat_min .. lat_max, lon_min .. lon_max of their pixels.
TilesOfExtent(c, p, s, e, lat_min, lat_max, lon_min, lon_max, time) ==
    IF CrossesDateline(lon_min, lon_max)
    THEN SecondHalf(AddTile(c, Tile(p, s, e, lat_min, lat_max,
                                    lon_min, 180, time)),
                    Tile(p, s, e, lat_min, lat_max,
                         -180, lon_max - 360, time))
    ELSE AddTile(c, Tile(p, s, e, lat_min, lat_max, lon_min, lon_max, time))

\* The lines [s, e) of a dataset.
Rows(ds, s, e) == {ds.lines[i + 1] : i \in s .. e - 1}

\* The body of add_file's loop for the tile [s, e) of file p.
AddTilesOfRange(c, p, s, e) ==
    TilesOfExtent(c, p, s, e,
                  SetMin({r.lat[1] : r \in Rows(Content(p), s, e)}),
                  SetMax({r.lat[2] : r \in Rows(Content(p), s, e)}),
                  SetMin(UNION {r.lon : r \in Rows(Content(p), s, e)}),
                  SetMax(UNION {r.lon : r \in Rows(Content(p), s, e)}),
                  Content(p).time)

\* for tile_start in range(0, num_lines, tile_size), from tile_start = s on;
\* reading the lines of the tile that starts at line fault_at raises.
\* range raises ValueError for a step of 0 and is empty for a step below 0.
RECURSIVE TileLoop(_, _, _, _, _)
\* A loop that leaves a line out after each tile.
ContinueSkipping(c1, p, s, t, fault_at) ==
    IF c1.err THEN c1 ELSE TileLoop(c1, p, s + t + 1, t, fault_at)

Continue(c1, p, s, t, fault_at) ==
    IF c1.err THEN c1 ELSE TileLoop(c1, p, s + t, t, fault_at)

TileLoop(c, p, s, t, fault_at) ==
    IF t = 0 THEN [c EXCEPT !.err = TRUE]
    ELSE IF t < 0 \/ s >= Len(Content(p).lines) THEN c
    ELSE IF s = fault_at THEN [c EXCEPT !.err = TRUE, !.hit = TRUE]
    ELSE Continue(AddTilesOfRange(c, p, s,
                                  Min2(s + t, Len(Content(p).lines))),
                  p, s, t, fault_at)

\* How the swath file may fail a call of add_file: it cannot be opened, or
\* reading the tile that starts at a line raises.
NoFault == [kind |-> "none", at |-> -1]
OpenFault == [kind |-> "open", at |-> -1]
Faults(p) ==
    {NoFault, OpenFault}
    \cup {[kind |-> "read", at |-> s] : s \in 1 .. Len(Content(p).lines) - 1}

\* A check that never finds the file indexed.
NeverIndexed(p) == FALSE

\* if filepath_str in self.indexed_files
AlreadyIndexed(p) == p \in indexed_files

\* if tile_size is None: tile_size = self.tile_size
EffectiveTileSize(arg) == IF arg = NoArg THEN tile_size ELSE arg[1]

\* What pickle.dump writes.
SnapshotKeys == {"metadata", "file_counter", "indexed_files", "tile_size",
                 "base_path"}
Snapshot(md, fc, ind, ts, bp) ==
    [keys          |-> SnapshotKeys,
     metadata      |-> md,
     file_counter  |-> fc,
     indexed_files |-> ind,
     tile_size     |-> ts,
     base_path     |-> bp]

EmptySnapshot == Snapshot(<<>>, 0, {}, 0, NoPath)

\* The snapshot file: absent, cut short (opened for writing and not, or
\* not completely, written), or holding a whole pickle. hist is the
\* history of the files whose add_file had completed when it was written.
NoFile == [kind |-> "absent", data |-> EmptySnapshot, hist |-> {}]
CutFile == [kind |-> "partial", data |-> EmptySnapshot, hist |-> {}]
FullFile(snap, hist) == [kind |-> "full", data |-> snap, hist |-> hist]

\* if Path(temp_file).exists(): Path(temp_file).unlink()
Unlink(exists) == FALSE

\* An auto-save that writes the snapshot file itself.
AutosaveInPlace(snap, hist, fss, how) ==
    IF how = "ok"
    THEN [disk |-> FullFile(snap, hist), tmp_exists |-> FALSE,
          files_since_save |-> 0, met |-> 0]
    ELSE [disk |-> CutFile, tmp_exists |-> FALSE,
          files_since_save |-> fss, met |-> 1]

\* _autosave: the pickle goes to the temporary file, which is then moved
\* over the snapshot file; on an exception the temporary file is removed
\* and neither the snapshot file nor the counter changes.
\* how: "ok", "write" (writing the temporary file raises), "move".
AutosaveOutcomes == {"ok", "write", "move"}
Autosave(snap, hist, fss, how) ==
    IF how = "ok"
    THEN [disk |-> FullFile(snap, hist), tmp_exists |-> FALSE,
          files_since_save |-> 0, met |-> 0]
    ELSE [disk |-> disk, tmp_exists |-> Unlink(TRUE),
          files_since_save |-> fss, met |-> 1]

\* An auto-save check that waits for one file more.
AutosaveDueLate(fss) == autosave_interval > 0 /\ fss > autosave_interval

\* if self.autosave_interval > 0 and self.files_since_save >= self.autosave_interval
AutosaveDue(fss) == autosave_interval > 0 /\ fss >= autosave_interval

\* if self.base_path is None: self.base_path = str(Path(filepath).parent)
BasePathFor(p) == IF base_path = NoPath THEN Parent(p) ELSE base_path

\* The outcome of a call of add_file: the state it leaves, its result, and
\* met, the number of failures of the environment it ran into.
Outcome(md, idx, fc, ind, bp, fss, d, tmp, done, result, met) ==
    [metadata |-> md, spatial_idx |-> idx, file_counter |-> fc,
     indexed_files |-> ind, base_path |-> bp, files_since_save |-> fss,
     disk |-> d, tmp_exists |-> tmp, completed |-> done,
     result |-> result, met |-> met]

\* add_file returns or raises before any tile is made.
Early(p, result, met) ==
    Outcome(metadata, spatial_idx, file_counter, indexed_files,
            BasePathFor(p), files_since_save, disk, tmp_exists, completed,
            result, met)

\* add_file after the auto-save check, sv being what _autosave left.
Saved(p, c, sv) ==
    Outcome(c.md, c.idx, c.fc, indexed_files \cup {p}, BasePathFor(p),
            sv.files_since_save, sv.disk, sv.tmp_exists,
            completed \cup {p}, "ok", sv.met)

\* self.files_since_save += 1 and the auto-save check
AutosaveCheck(p, c, fss, how) ==
    IF AutosaveDue(fss)
    THEN Autosave(Snapshot(c.md, c.fc, indexed_files \cup {p}, tile_size,
                           BasePathFor(p)),
                  completed \cup {p}, fss, how)
    ELSE [disk |-> disk, tmp_exists |-> tmp_exists,
          files_since_save |-> fss, met |-> 0]

\* An add_file that marks the file as indexed before its loop.
AfterLoopMarkedFirst(p, c, how) ==
    IF c.err
    THEN Outcome(c.md, c.idx, c.fc, indexed_files \cup {p}, BasePathFor(p),
                 files_since_save, disk, tmp_exists, completed, "error",
                 IF c.hit THEN 1 ELSE 0)
    ELSE Saved(p, c, AutosaveCheck(p, c, files_since_save + 1, how))

\* add_file after its loop, which left c.
AfterLoop(p, c, how) ==
    IF c.err
    THEN Outcome(c.md, c.idx, c.fc, indexed_files, BasePathFor(p),
                 files_since_save, disk, tmp_exists, completed, "error",
                 IF c.hit THEN 1 ELSE 0)
    ELSE Saved(p, c, AutosaveCheck(p, c, files_since_save + 1, how))

\* add_file(p, tile_size=arg) from the current state.
AddFileResult(p, arg, fault, how) ==
    IF AlreadyIndexed(p) THEN Early(p, "skipped", 0)
    ELSE IF fault.kind = "open" THEN Early(p, "error", 1)
    ELSE AfterLoop(p,
                   TileLoop(Core(metadata, spatial_idx, file_counter), p, 0,
                            EffectiveTileSize(arg), fault.at),
                   how)

\* The failures a choice of fault and how asks for.
Asked(fault, how) ==
    (IF fault = NoFault THEN 0 ELSE 1) + (IF how = "ok" THEN 0 ELSE 1)

Call(op, path, result) == [op |-> op, path |-> path, result |-> result]

\* The state after a call of add_file(p) with outcome r.
Becomes(p, r) ==
    /\ metadata' = r.metadata
    /\ spatial_idx' = r.spatial_idx
    /\ file_counter' = r.file_counter
    /\ indexed_files' = r.indexed_files
    /\ base_path' = r.base_path
    /\ files_since_save' = r.files_since_save
    /\ disk' = r.disk
    /\ tmp_exists' = r.tmp_exists
    /\ completed' = r.completed
    /\ faults' = faults + r.met
    /\ last' = Call("add_file", p, r.result)
    /\ disk_before' = NoFile
    /\ observed' = "nothing"

\* The model follows a call whose every failure asked for is met, within
\* its bounds.
Within(r, fault, how) ==
    /\ r.met = Asked(fault, how)
    /\ faults + r.met <= MaxFaults
    /\ r.file_counter <= MaxId

\* The step of a call of add_file(p, tile_size=arg).
AddFileStep(p, arg) ==
    \E fault \in Faults(p), how \in AutosaveOutcomes :
       /\ faults + Asked(fault, how) <= MaxFaults
       /\ Within(AddFileResult(p, arg, fault, how), fault, how)
       /\ Becomes(p, AddFileResult(p, arg, fault, how))

\* index.add_file(p, tile_size=arg)
AddFile ==
    /\ pc = "idle"
    /\ \E p \in Files, arg \in TileSizeArgs : AddFileStep(p, arg)
    /\ UNCHANGED <<tile_size, autosave_interval, pc, pending, batch_tile_size,
                   merge_in, merge_out>>

---------------------------------------------------------------------------
(* save and load.                                                          *)

\* open(self.metadata_file, 'wb') empties the snapshot file.
OpenForWriting(d) == CutFile

\* save(), first half: the snapshot file is opened for writing.
SaveEnter ==
    /\ disk_before' = disk
    /\ disk' = OpenForWriting(disk)
    /\ pc' = "saving"
    /\ observed' = "nothing"
    /\ last' = Call("save", NoPath, "running")

\* index.save(), up to the open
Save ==
    /\ pc = "idle"
    /\ SaveEnter
    /\ UNCHANGED <<metadata, spatial_idx, file_counter, indexed_files,
                   tile_size, base_path, autosave_interval, files_since_save,
                   tmp_exists, pending, batch_tile_size, completed, faults,
                   merge_in, merge_out>>

\* save(), second half: pickle.dump completes, the file is closed and the
\* autosave counter reset.
SaveWrite ==
    /\ pc = "saving"
    /\ disk' = FullFile(Snapshot(metadata, file_counter, indexed_files,
                                 tile_size, base_path), completed)
    /\ files_since_save' = 0
    /\ pc' = "idle"
    /\ last' = Call("save", NoPath, "ok")
    /\ UNCHANGED <<metadata, spatial_idx, file_counter, indexed_files,
                   tile_size, base_path, autosave_interval, tmp_exists,
                   pending, batch_tile_size, observed, completed,
                   disk_before, faults, merge_in, merge_out>>

\* save(), second half: pickle.dump raises.
SaveFail ==
    /\ pc = "saving"
    /\ faults < MaxFaults
    /\ faults' = faults + 1
    /\ pc' = "idle"
    /\ last' = Call("save", NoPath, "error")
    /\ UNCHANGED <<metadata, spatial_idx, file_counter, indexed_files,
                   tile_size, base_path, autosave_interval, files_since_save,
                   disk, tmp_exists, pending, batch_tile_size, observed,
                   completed, disk_before, merge_in, merge_out>>

\* tile_size = data.get('tile_size', 493)
DefaultTileSize == 493

\* A lookup that takes the key to be there.
GetStored(data, key, default) == data[key]

\* data.get(key, default)
Get(data, key, default) == IF key \in data.keys THEN data[key] ELSE default

\* A rebuild that takes tile id 0 for "no id" and leaves it out.
RebuildSkippingZero(md) ==
    {<<tile_id, md[tile_id].bbox>> : tile_id \in DOMAIN md \ {0}}

\* for tile_id, meta in idx.metadata.items(): idx.spatial_idx.insert(...)
Rebuild(md) == {<<tile_id, md[tile_id].bbox>> : tile_id \in DOMAIN md}

\* A remap that keeps only the name of the file under the new base.
RemapPathByName(old_path, old_base, new_base) ==
    IF IsRelativeTo(old_path, old_base)
    THEN Append(new_base, old_path[Len(old_path)])
    ELSE old_path

\* str(new_base / old_path.relative_to(old_base)), or old_path on ValueError
RemapPath(old_path, old_base, new_base) ==
    IF IsRelativeTo(old_path, old_base)
    THEN Rebase(old_path, old_base, new_base)
    ELSE old_path

\* A remap that keeps only the tiles of the files under the old base.
RemapDropping(md, ind, bp, new_base) ==
    IF bp = NoPath
    THEN [metadata |-> md, indexed_files |-> ind, base_path |-> bp]
    ELSE [metadata |-> [i \in {j \in DOMAIN md :
                                  IsRelativeTo(md[j].file, bp)} |->
                          [md[i] EXCEPT !.file = RemapPath(@, bp, new_base)]],
          indexed_files |-> {RemapPath(f, bp, new_base) : f \in ind},
          base_path |-> new_base]

\* set_base_path(new_base) on metadata md, indexed_files ind, base_path bp
Remap(md, ind, bp, new_base) ==
    IF bp = NoPath
    THEN [metadata |-> md, indexed_files |-> ind, base_path |-> bp]
    ELSE [metadata |-> [i \in DOMAIN md |->
                          [md[i] EXCEPT !.file = RemapPath(@, bp, new_base)]],
          indexed_files |-> {RemapPath(f, bp, new_base) : f \in ind},
          base_path |-> new_base]

\* The history follows the files as set_base_path renames them.
RemapHistory(hist, bp, new_base) ==
    IF bp = NoPath THEN hist
    ELSE {RemapPath(f, bp, new_base) : f \in hist}

\* if new_base_path is not None: idx.set_base_path(new_base_path)
RemapIfAsked(md, ind, bp, nb) ==
    IF nb = NoArg
    THEN [metadata |-> md, indexed_files |-> ind, base_path |-> bp]
    ELSE Remap(md, ind, bp, nb[1])

Loaded(data, r, hist) ==
    [metadata      |-> r.metadata,
     spatial_idx   |-> Rebuild(data.metadata),
     file_counter  |-> data.file_counter,
     indexed_files |-> r.indexed_files,
     tile_size     |-> Get(data, "tile_size", DefaultTileSize),
     base_path     |-> r.base_path,
     completed     |-> hist]

\* SWOTSpatialIndex.load(new_base_path=nb) of a whole snapshot file d.
LoadResult(d, nb) ==
    Loaded(d.data,
           RemapIfAsked(d.data.metadata, Get(d.data, "indexed_files", {}),
                        Get(d.data, "base_path", NoPath), nb),
           IF nb = NoArg THEN d.hist
           ELSE RemapHistory(d.hist, Get(d.data, "base_path", NoPath), nb[1]))

\* The index load returns.
BecomesLoaded(r, ai) ==
    /\ metadata' = r.metadata
    /\ spatial_idx' = r.spatial_idx
    /\ file_counter' = r.file_counter
    /\ indexed_files' = r.indexed_files
    /\ tile_size' = r.tile_size
    /\ base_path' = r.base_path
    /\ completed' = r.completed
    /\ autosave_interval' = ai
    /\ files_since_save' = 0
    /\ last' = Call("load", NoPath, "ok")

\* SWOTSpatialIndex.load(index_file, new_base_path=nb, autosave_interval=ai)
Load ==
    /\ pc = "idle"
    /\ \E nb \in {NoArg} \cup {<<b>> : b \in NewBases},
          ai \in AutosaveIntervals :
         IF disk.kind = "full"
         THEN BecomesLoaded(LoadResult(disk, nb), ai)
         ELSE /\ last' = Call("load", NoPath,
                              IF disk.kind = "absent" THEN "not_found"
                              ELSE "error")
              /\ UNCHANGED <<metadata, spatial_idx, file_counter,
                             indexed_files, tile_size, base_path, completed,
                             autosave_interval, files_since_save>>
    /\ disk_before' = NoFile
    /\ observed' = "nothing"
    /\ UNCHANGED <<disk, tmp_exists, pc, pending, batch_tile_size, faults,
                   merge_in, merge_out>>

BecomesRemapped(r) ==
    /\ metadata' = r.metadata
    /\ indexed_files' = r.indexed_files
    /\ base_path' = r.base_path

\* index.set_base_path(new_base)
SetBasePath ==
    /\ pc = "idle"
    /\ \E new_base \in NewBases :
         /\ BecomesRemapped(Remap(metadata, indexed_files, base_path,
                                  new_base))
         /\ completed' = RemapHistory(completed, base_path, new_base)
         /\ last' = Call("set_base_path", new_base,
                         IF base_path = NoPath THEN "skipped" ELSE "ok")
    /\ disk_before' = NoFile
    /\ observed' = "nothing"
    /\ UNCHANGED <<spatial_idx, file_counter, tile_size, autosave_interval,
                   files_since_save, disk, tmp_exists, pc, pending,
                   batch_tile_size, faults, merge_in, merge_out>>

---------------------------------------------------------------------------
(* add_files_from_directory.                                               *)

BatchDirs == {<<"a">>}

\* list(Path(directory).glob(pattern)): the files directly in the
\* directory ('*.nc') or anywhere below it ('**/*.nc').
Glob(directory, recursive) ==
    {f \in Files : IF recursive THEN IsRelativeTo(f, directory)
                   ELSE Parent(f) = directory}

\* The orders in which a set of files may be listed.
Orders(S) ==
    {o \in [1 .. Cardinality(S) -> S] :
        \A i, j \in 1 .. Cardinality(S) : o[i] = o[j] => i = j}

\* new_files = [f for f in files if str(f) not in self.indexed_files]
NewFiles(files) == {f \in files : f \notin indexed_files}

\* index.add_files_from_directory(directory, pattern, tile_size=arg), up to
\* the loop
BatchStart ==
    /\ pc = "idle"
    /\ \E directory \in BatchDirs, recursive \in BOOLEAN,
          arg \in TileSizeArgs :
         \E new_files \in Orders(NewFiles(Glob(directory, recursive))) :
            /\ pending' = new_files
            /\ batch_tile_size' = arg
            /\ last' = Call("add_files_from_directory", directory, "running")
    /\ pc' = "batch"
    /\ disk_before' = NoFile
    /\ observed' = "nothing"
    /\ UNCHANGED <<metadata, spatial_idx, file_counter, indexed_files,
                   tile_size, base_path, autosave_interval, files_since_save,
                   disk, tmp_exists, completed, faults, merge_in, merge_out>>

\* One turn of the loop: self.add_file(filepath, tile_size=tile_size). An
\* exception of add_file is not caught and ends the call.
BatchStep ==
    /\ pc = "batch"
    /\ pending # <<>>
    /\ AddFileStep(Head(pending), batch_tile_size)
    /\ IF last'.result = "error"
       THEN pc' = "idle" /\ pending' = <<>> /\ batch_tile_size' = NoArg
       ELSE pc' = "batch" /\ pending' = Tail(pending)
            /\ batch_tile_size' = batch_tile_size
    /\ UNCHANGED <<tile_size, autosave_interval, merge_in, merge_out>>

\* A batch that returns without its final save.
BatchFinishWithoutSave ==
    /\ pc = "batch"
    /\ pending = <<>>
    /\ pc' = "idle"
    /\ last' = Call("add_files_from_directory", NoPath, "ok")
    /\ batch_tile_size' = NoArg
    /\ UNCHANGED <<metadata, spatial_idx, file_counter, indexed_files,
                   tile_size, base_path, autosave_interval, files_since_save,
                   disk, tmp_exists, pending, observed, completed,
                   disk_before, faults, merge_in, merge_out>>

\* After the loop: if self.files_since_save > 0: self.save()
BatchFinish ==
    /\ pc = "batch"
    /\ pending = <<>>
    /\ IF files_since_save > 0
       THEN SaveEnter
       ELSE /\ pc' = "idle"
            /\ last' = Call("add_files_from_directory", NoPath, "ok")
            /\ UNCHANGED <<disk, disk_before, observed>>
    /\ batch_tile_size' = NoArg
    /\ UNCHANGED <<metadata, spatial_idx, file_counter, indexed_files,
                   tile_size, base_path, autosave_interval, files_since_save,
                   tmp_exists, pending, completed, faults, merge_in,
                   merge_out>>

\* The call is interrupted between two files.
BatchAbort ==
    /\ pc = "batch"
    /\ pending # <<>>
    /\ pc' = "idle"
    /\ pending' = <<>>
    /\ batch_tile_size' = NoArg
    /\ last' = Call("add_files_from_directory", NoPath, "aborted")
    /\ UNCHANGED <<metadata, spatial_idx, file_counter, indexed_files,
                   tile_size, base_path, autosave_interval, files_since_save,
                   disk, tmp_exists, observed, completed, disk_before, faults,
                   merge_in, merge_out>>

\* Another process opens the snapshot file and reads it while save() runs.
ReaderRead ==
    /\ pc = "saving"
    /\ observed' = disk.kind
    /\ UNCHANGED <<metadata, spatial_idx, file_counter, indexed_files,
                   tile_size, base_path, autosave_interval, files_since_save,
                   disk, tmp_exists, pc, pending, batch_tile_size, last,
                   completed, disk_before, faults, merge_in, merge_out>>

---------------------------------------------------------------------------
(* query.                                                                  *)

\* A time filter that also skips the tiles that end at time_start or start
\* at time_end.
TimeKeepsInside(meta, time_start, time_end) ==
    /\ ~(time_start # NoArg /\ meta.time_range[2] <= time_start[1])
    /\ ~(time_end # NoArg /\ meta.time_range[1] >= time_end[1])

\* The time filter of query: the tile is skipped when time_start is given
\* and the tile ends before it, or time_end is given and the tile starts
\* after it.
TimeKeeps(meta, time_start, time_end) ==
    /\ ~(time_start # NoArg /\ meta.time_range[2] < time_start[1])
    /\ ~(time_end # NoArg /\ meta.time_range[1] > time_end[1])

\* The ids of the tiles query appends a result for, in the order of the
\* candidates.
QueryIds(md, idx, box, time_start, time_end) ==
    SelectSeq(IdxIntersection(idx, box),
              LAMBDA tile_id : /\ tile_id \in DOMAIN md
                               /\ TimeKeeps(md[tile_id], time_start, time_end))

\* What query appends for a tile.
Result(meta) ==
    [file |-> meta.file, line_range |-> meta.line_range, bbox |-> meta.bbox]

\* query(lat_min, lat_max, lon_min, lon_max, time_start, time_end) on the
\* index (md, idx), with box = (lon_min, lat_min, lon_max, lat_max)
Query(md, idx, box, time_start, time_end) ==
    LET ids == QueryIds(md, idx, box, time_start, time_end)
    IN [i \in 1 .. Len(ids) |-> Result(md[ids[i]])]

---------------------------------------------------------------------------
(* merge_line_ranges.                                                      *)

\* Python's order of tuples
TupleLeq(a, b) == a[1] < b[1] \/ (a[1] = b[1] /\ a[2] <= b[2])

\* sorted(line_ranges)
RECURSIVE Sorted(_)
Sorted(ranges) ==
    IF ranges = <<>> THEN <<>>
    ELSE LET rest == Sorted(Tail(ranges))
             x    == Head(ranges)
             n    == Cardinality({i \in 1 .. Len(rest) : ~TupleLeq(x, rest[i])})
         IN SubSeq(rest, 1, n) \o <<x>> \o SubSeq(rest, n + 1, Len(rest))

\* slice(start, stop)
Slice(start, stop) == [start |-> start, stop |-> stop]

\* A test that merges overlapping ranges only, not adjacent ones.
MergeableOverlapping(start, current_end) == start < current_end

\* if start <= current_end
Mergeable(start, current_end) == start <= current_end

\* The loop of merge_line_ranges over the sorted ranges still to visit.
RECURSIVE MergeLoop(_, _, _, _)
MergeLoop(rest, merged, current_start, current_end) ==
    IF rest = <<>>
    THEN Append(merged, Slice(current_start, current_end))
    ELSE LET start == Head(rest)[1]
             end   == Head(rest)[2]
         IN IF Mergeable(start, current_end)
            THEN MergeLoop(Tail(rest), merged, current_start,
                           Max2(current_end, end))
            ELSE MergeLoop(Tail(rest),
                           Append(merged, Slice(current_start, current_end)),
                           start, end)

merge_line_ranges(line_ranges) ==
    IF line_ranges = <<>> THEN <<>>
    ELSE LET sorted_ranges == Sorted(line_ranges)
         IN MergeLoop(Tail(sorted_ranges), <<>>, sorted_ranges[1][1],
                      sorted_ranges[1][2])

---------------------------------------------------------------------------
(* The catalog's specification.                                            *)

\* SWOTSpatialIndex(index_file, tile_size, autosave_interval), no snapshot
\* file yet.
Init ==
    /\ metadata = <<>>
    /\ spatial_idx = {}
    /\ file_counter = 0
    /\ indexed_files = {}
    /\ tile_size \in TileSizes
    /\ base_path = NoPath
    /\ autosave_interval \in AutosaveIntervals
    /\ files_since_save = 0
    /\ disk = NoFile
    /\ tmp_exists = FALSE
    /\ pc = "idle"
    /\ pending = <<>>
    /\ batch_tile_size = NoArg
    /\ last = Call("init", NoPath, "ok")
    /\ observed = "nothing"
    /\ completed = {}
    /\ disk_before = NoFile
    /\ faults = 0
    /\ merge_in = <<>>
    /\ merge_out = <<>>

Next ==
    \/ AddFile
    \/ Save
    \/ SaveWrite
    \/ SaveFail
    \/ Load
    \/ SetBasePath
    \/ BatchStart
    \/ BatchStep
    \/ BatchFinish
    \/ BatchAbort
    \/ ReaderRead

Spec == Init /\ [][Next]_vars

---------------------------------------------------------------------------
(* The specification of merge_line_ranges alone: it is given any list of  *)
(* at most MaxRanges half-open ranges of the lines 0 .. MaxLine.           *)

LineRanges == {r \in (0 .. MaxLine) \X (0 .. MaxLine) : r[1] <= r[2]}
RangeLists == UNION {[1 .. n -> LineRanges] : n \in 0 .. MaxRanges}

InitMerge ==
    /\ metadata = <<>>
    /\ spatial_idx = {}
    /\ file_counter = 0
    /\ indexed_files = {}
    /\ tile_size \in TileSizes
    /\ base_path = NoPath
    /\ autosave_interval \in AutosaveIntervals
    /\ files_since_save = 0
    /\ disk = NoFile
    /\ tmp_exists = FALSE
    /\ pc = "idle"
    /\ pending = <<>>
    /\ batch_tile_size = NoArg
    /\ last = Call("init", NoPath, "ok")
    /\ observed = "nothing"
    /\ completed = {}
    /\ disk_before = NoFile
    /\ faults = 0
    /\ merge_in \in RangeLists
    /\ merge_out = <<>>

\* merged_slices = merge_line_ranges(line_ranges); the result is kept as
\* <<merged_slices>>.
MergeCall ==
    /\ merge_out = <<>>
    /\ merge_out' = <<merge_line_ranges(merge_in)>>
    /\ UNCHANGED <<metadata, spatial_idx, file_counter, indexed_files,
                   tile_size, base_path, autosave_interval, files_since_save,
                   disk, tmp_exists, pc, pending, batch_tile_size, last,
                   observed, completed, disk_before, faults, merge_in>>

NextMerge == MergeCall

SpecMerge == InitMerge /\ [][NextMerge]_vars

---------------------------------------------------------------------------
(* The specification of the auto-save: the catalog with an index that is  *)
(* built to save after every file or after every second file.              *)

\* autosave_interval of the new index
AutosaveThresholds == {1, 2}

InitAuto ==
    /\ metadata = <<>>
    /\ spatial_idx = {}
    /\ file_counter = 0
    /\ indexed_files = {}
    /\ tile_size \in TileSizes
    /\ base_path = NoPath
    /\ autosave_interval \in AutosaveThresholds
    /\ files_since_save = 0
    /\ disk = NoFile
    /\ tmp_exists = FALSE
    /\ pc = "idle"
    /\ pending = <<>>
    /\ batch_tile_size = NoArg
    /\ last = Call("init", NoPath, "ok")
    /\ observed = "nothing"
    /\ completed = {}
    /\ disk_before = NoFile
    /\ faults = 0
    /\ merge_in = <<>>
    /\ merge_out = <<>>

SpecAuto == InitAuto /\ [][Next]_vars

---------------------------------------------------------------------------
(* The specification of load on snapshots of older versions: a new index   *)
(* and a snapshot file written without some of tile_size, indexed_files    *)
(* and base_path, or no snapshot file.                                     *)

\* The keys an older snapshot may hold: data['metadata'] and
\* data['file_counter'] are read without a default.
LegacyKeySets ==
    {keys \in SUBSET SnapshotKeys : {"metadata", "file_counter"} \subseteq keys}

\* The catalog with the tiles of one file, of one line each.
CatalogOf(p) == TileLoop(Core(<<>>, {}, 0), p, 0, 1, NoFault.at)

\* The snapshot of the catalog of file p that holds the given keys only: a
\* field whose key is not among them is not in the file.
LegacySnapshot(keys, p) ==
    [Snapshot(CatalogOf(p).md, CatalogOf(p).fc, {p}, 1, Parent(p))
        EXCEPT !.keys = keys]

LegacyFiles ==
    {FullFile(LegacySnapshot(keys, p), {p}) :
        keys \in LegacyKeySets, p \in {F1, F3}}

InitLegacy ==
    /\ metadata = <<>>
    /\ spatial_idx = {}
    /\ file_counter = 0
    /\ indexed_files = {}
    /\ tile_size \in TileSizes
    /\ base_path = NoPath
    /\ autosave_interval \in AutosaveIntervals
    /\ files_since_save = 0
    /\ disk \in LegacyFiles \cup {NoFile}
    /\ tmp_exists = FALSE
    /\ pc = "idle"
    /\ pending = <<>>
    /\ batch_tile_size = NoArg
    /\ last = Call("init", NoPath, "ok")
    /\ observed = "nothing"
    /\ completed = {}
    /\ disk_before = NoFile
    /\ faults = 0
    /\ merge_in = <<>>
    /\ merge_out = <<>>

NextLegacy ==
    \/ Load
    \/ AddFile
    \/ SetBasePath

SpecLegacy == InitLegacy /\ [][NextLegacy]_vars

---------------------------------------------------------------------------
(* The specification of the tile loop: a new index of each tile_size and   *)
(* add_file, without a tile_size argument, of swath files of each length.  *)

\* tile_size of a new index: __init__ takes any integer.
TilingSizes == -1 .. MaxId

InitTiling ==
    /\ metadata = <<>>
    /\ spatial_idx = {}
    /\ file_counter = 0
    /\ indexed_files = {}
    /\ tile_size \in TilingSizes
    /\ base_path = NoPath
    /\ autosave_interval \in AutosaveIntervals
    /\ files_since_save = 0
    /\ disk = NoFile
    /\ tmp_exists = FALSE
    /\ pc = "idle"
    /\ pending = <<>>
    /\ batch_tile_size = NoArg
    /\ last = Call("init", NoPath, "ok")
    /\ observed = "nothing"
    /\ completed = {}
    /\ disk_before = NoFile
    /\ faults = 0
    /\ merge_in = <<>>
    /\ merge_out = <<>>

\* index.add_file(p) of a swath file
AddSwath ==
    /\ pc = "idle"
    /\ \E p \in Swaths : AddFileStep(p, NoArg)
    /\ UNCHANGED <<tile_size, autosave_interval, pc, pending, batch_tile_size,
                   merge_in, merge_out>>

NextTiling == AddSwath

SpecTiling == InitTiling /\ [][NextTiling]_vars

---------------------------------------------------------------------------
(* Properties of the catalog.                                              *)

\* The query boxes (lon_min, lat_min, lon_max, lat_max) and the time bounds
\* the properties range over.
QueryLons == {-180, 10, 20, 180}
QueryLats == {0, 10}
QueryBoxes ==
    {b \in QueryLons \X QueryLats \X QueryLons \X QueryLats :
        b[1] <= b[3] /\ b[2] <= b[4]}
TimeArgs == {NoArg, <<1>>, <<3>>}

\* The box of all the tiles, one that meets the tiles of two files on an
\* edge, one that meets the tiles on the seam only.
TimeBoxes == {<<-180, 0, 180, 10>>, <<10, 0, 20, 10>>,
              <<-180, 10, -180, 10>>}

\* Two closed boxes have a point in common.
Overlap(b, q) ==
    /\ Max2(b[1], q[1]) <= Min2(b[3], q[3])
    /\ Max2(b[2], q[2]) <= Min2(b[4], q[4])

\* The boxes have a point in common but no area.
OnlyTouch(b, q) ==
    /\ Overlap(b, q)
    /\ \/ Max2(b[1], q[1]) = Min2(b[3], q[3])
       \/ Max2(b[2], q[2]) = Min2(b[4], q[4])

\* The elements of a sequence.
Range(seq) == {seq[k] : k \in DOMAIN seq}

\* C1: a path is in indexed_files, in memory or in a snapshot, only if
\* add_file ran to completion on that file: a path whose add_file failed,
\* at the open or in the middle of its tiles, is not in indexed_files, and
\* neither are the files a batch has not come to yet.
C1_IndexedOnlyAfterCompletion ==
    /\ indexed_files \subseteq completed
    /\ disk.kind = "full" => disk.data.indexed_files \subseteq disk.hist
    /\ (last.op = "add_file" /\ last.result = "error")
          => last.path \notin indexed_files
    /\ \A k \in DOMAIN pending : pending[k] \notin indexed_files

\* add_file has failed on a file after it stored some of its tiles.
C1_Witness ==
    /\ last.op = "add_file"
    /\ last.result = "error"
    /\ \E i \in DOMAIN metadata : metadata[i].file = last.path
    /\ indexed_files # {}

\* C2: add_file on a path that is in indexed_files, with any tile_size
\* argument, is a skip and not an error, and leaves the tiles, the spatial
\* index, file_counter, indexed_files, tile_size and base_path as they were.
C2_AddFileIdempotent ==
    [][\A p \in Files, arg \in TileSizeArgs :
          (pc = "idle" /\ p \in indexed_files /\ AddFileStep(p, arg))
             => /\ last'.result = "skipped"
                /\ catalog' = catalog
                /\ files_since_save' = files_since_save]_vars

\* add_file has skipped a file that is indexed with tiles.
C2_Witness ==
    /\ last.op = "add_file"
    /\ last.result = "skipped"
    /\ last.path \in indexed_files
    /\ \E i \in DOMAIN metadata : metadata[i].file = last.path

\* C3: the ids of the spatial index are the keys of metadata, one entry
\* per id, and the box indexed under an id is the bbox of its metadata.
C3_IndexMatchesMetadata ==
    /\ {e[1] : e \in spatial_idx} = DOMAIN metadata
    /\ Cardinality(spatial_idx) = Cardinality(DOMAIN metadata)
    /\ \A e \in spatial_idx : e[2] = metadata[e[1]].bbox

\* An index is loaded that holds the tiles of a complete file and those a
\* failed add_file left behind.
C3_Witness ==
    /\ last.op = "load"
    /\ last.result = "ok"
    /\ \E i \in DOMAIN metadata : metadata[i].file \notin indexed_files
    /\ \E i \in DOMAIN metadata : metadata[i].file \in indexed_files

\* The queries of the round trip: every box without time bounds, and the
\* boxes of the time filter with every pair of time bounds.
RoundTripQueries ==
    {<<box, NoArg, NoArg>> : box \in QueryBoxes}
    \cup (TimeBoxes \X TimeArgs \X TimeArgs)

\* The index load returns gives the results that the index in memory gives.
SameAnswers(loaded) ==
    \A q \in RoundTripQueries :
       Query(loaded.metadata, loaded.spatial_idx, q[1], q[2], q[3])
         = Query(metadata, spatial_idx, q[1], q[2], q[3])

SameCatalog(loaded) ==
    /\ loaded.metadata = metadata
    /\ loaded.file_counter = file_counter
    /\ loaded.indexed_files = indexed_files
    /\ loaded.tile_size = tile_size
    /\ loaded.base_path = base_path

\* C4: after save(), load() of the snapshot file gives an index with equal
\* metadata, file_counter, indexed_files, tile_size and base_path, and
\* whose query returns what the saved index's query returns, for every box
\* and every time_start and time_end.
C4_SaveLoadRoundTrip ==
    (last.op = "save" /\ last.result = "ok") =>
        /\ disk.kind = "full"
        /\ SameCatalog(LoadResult(disk, NoArg))
        /\ SameAnswers(LoadResult(disk, NoArg))

\* A remapped index with the tiles of several files has been saved.
C4_Witness ==
    /\ last.op = "save"
    /\ last.result = "ok"
    /\ base_path \in NewBases
    /\ Cardinality({metadata[i].file : i \in DOMAIN metadata}) >= 2

\* C5 (as the specification states it): when save() fails or is interrupted
\* the snapshot persisted before is still in the file, and no temporary
\* file is left.
C5_SaveKeepsPriorSnapshot ==
    (/\ last.op = "save"
     /\ last.result \in {"running", "error"}
     /\ disk_before.kind = "full")
        => (disk = disk_before /\ ~tmp_exists)

\* C6 (as the specification states it): a reader of the snapshot file
\* during a save() that replaces a snapshot never sees a cut file.
C6_ReaderSeesWholeSnapshot ==
    disk_before.kind = "full" => observed # "partial"

\* The tiles whose bbox has a point in common with the box.
Meeting(box) == {i \in DOMAIN metadata : Overlap(metadata[i].bbox, box)}

\* ids lists the tiles of a set, each once.
ListsOnce(ids, tiles) ==
    /\ Range(ids) = tiles
    /\ Len(ids) = Cardinality(tiles)

\* results holds one result for each tile of a set and nothing else.
Answers(results, tiles) ==
    /\ Len(results) = Cardinality(tiles)
    /\ Range(results) = {Result(metadata[i]) : i \in tiles}
    /\ tiles = {} => results = <<>>

\* C7: without time bounds, query returns one result (file, line_range,
\* bbox) for each tile whose bbox has a point in common with the box, and
\* nothing else; no tile in common gives the empty list.
C7_QueryIsExact ==
    \A box \in QueryBoxes :
       Answers(Query(metadata, spatial_idx, box, NoArg, NoArg), Meeting(box))

\* A box only touches a tile of one file and misses the tiles of another.
C7_Witness ==
    \E box \in QueryBoxes, i \in DOMAIN metadata, j \in DOMAIN metadata :
       /\ OnlyTouch(metadata[i].bbox, box)
       /\ ~Overlap(metadata[j].bbox, box)
       /\ metadata[i].file # metadata[j].file
       /\ \A k \in DOMAIN metadata :
             metadata[k].file = metadata[j].file
                => ~Overlap(metadata[k].bbox, box)

\* C8: of the tiles that match the box, query leaves out those with
\* time_start given and after the tile's end T2, or time_end given and
\* before the tile's start T1, and returns all the others, those with
\* time_start = T2 or time_end = T1 among them.
C8_TimeFilter ==
    \A box \in TimeBoxes, time_start \in TimeArgs, time_end \in TimeArgs :
       ListsOnce(QueryIds(metadata, spatial_idx, box, time_start, time_end),
                 {i \in Meeting(box) :
                     /\ time_start # NoArg
                           => time_start[1] <= metadata[i].time_range[2]
                     /\ time_end # NoArg
                           => time_end[1] >= metadata[i].time_range[1]})

\* One tile ends at a time_start that leaves another tile out, and one
\* tile starts at a time_end that leaves another tile out.
C8_Witness ==
    /\ \E time_start \in TimeArgs \ {NoArg},
          i \in DOMAIN metadata, j \in DOMAIN metadata :
          /\ time_start[1] = metadata[i].time_range[2]
          /\ time_start[1] > metadata[j].time_range[2]
    /\ \E time_end \in TimeArgs \ {NoArg},
          i \in DOMAIN metadata, j \in DOMAIN metadata :
          /\ time_end[1] = metadata[i].time_range[1]
          /\ time_end[1] < metadata[j].time_range[1]

\* The longitude extents of the tiles of a file.
LonExtents(p) ==
    {<<metadata[i].bbox[1], metadata[i].bbox[3]>> :
        i \in {j \in DOMAIN metadata : metadata[j].file = p}}

\* C10 (as the specification states it): a tile of pixels from longitude
\* 170 over the seam to -170 is stored as two tiles with the longitude
\* extents [170, 180] and [-180, -170].
C10_AntimeridianSplit ==
    (last.op = "add_file" /\ last.path = F2 /\ last.result = "ok")
        => LonExtents(F2) = {<<170, 180>>, <<-180, -170>>}

---------------------------------------------------------------------------
(* Properties of merge_line_ranges.                                        *)

\* The lines a list of half-open ranges covers, and a list of slices.
LinesOfRanges(ranges) ==
    UNION {ranges[k][1] .. ranges[k][2] - 1 : k \in DOMAIN ranges}
LinesOfSlices(slices) ==
    UNION {slices[k].start .. slices[k].stop - 1 : k \in DOMAIN slices}

\* C9: merge_line_ranges returns slices sorted by start, each starting
\* strictly after the stop of the one before, that cover the lines its
\* argument covers; [] gives [], and [(0,500),(500,1000),(2000,2500)]
\* gives [(0,1000),(2000,2500)].
C9_MergeLineRanges ==
    /\ merge_out # <<>> =>
          /\ \A k \in 2 .. Len(merge_out[1]) :
                /\ merge_out[1][k].start > merge_out[1][k - 1].start
                /\ merge_out[1][k].start > merge_out[1][k - 1].stop
          /\ LinesOfSlices(merge_out[1]) = LinesOfRanges(merge_in)
          /\ merge_in = <<>> => merge_out[1] = <<>>
    /\ merge_line_ranges(<<>>) = <<>>
    /\ merge_line_ranges(<< <<0, 500>>, <<500, 1000>>, <<2000, 2500>> >>)
          = << Slice(0, 1000), Slice(2000, 2500) >>

\* Three ranges out of order, two of them adjacent, have been merged into
\* two slices.
C9_Witness ==
    /\ merge_out # <<>>
    /\ Len(merge_in) >= 3
    /\ Len(merge_out[1]) = 2
    /\ \E i \in DOMAIN merge_in, j \in DOMAIN merge_in :
          /\ i < j
          /\ merge_in[j][2] = merge_in[i][1]
          /\ merge_in[j][1] < merge_in[j][2]
          /\ merge_in[i][1] < merge_in[i][2]

---------------------------------------------------------------------------
(* Properties of the tiles.                                                *)

\* C11: the bbox of every stored tile, the halves of a tile split at the
\* seam included, has min_lon <= max_lon and min_lat <= max_lat.
C11_BoxesAreValid ==
    \A i \in DOMAIN metadata :
       /\ metadata[i].bbox[1] <= metadata[i].bbox[3]
       /\ metadata[i].bbox[2] <= metadata[i].bbox[4]

\* The two halves of a tile split at the seam are stored.
C11_Witness ==
    \E i \in DOMAIN metadata, j \in DOMAIN metadata :
       /\ i # j
       /\ metadata[i].file = metadata[j].file
       /\ metadata[i].line_range = metadata[j].line_range
       /\ metadata[i].bbox[3] = 180
       /\ metadata[j].bbox[1] = -180

---------------------------------------------------------------------------
(* Properties of set_base_path.                                            *)

\* The path lies under the base.
Under(path, base) ==
    /\ Len(base) <= Len(path)
    /\ \A k \in 1 .. Len(base) : path[k] = base[k]

\* The path moved from under old_base to under new_base, or itself when it
\* is not under old_base.
Moved(path, old_base, new_base) ==
    IF Under(path, old_base)
    THEN [k \in 1 .. Len(new_base) + Len(path) - Len(old_base) |->
             IF k <= Len(new_base) THEN new_base[k]
             ELSE path[k - Len(new_base) + Len(old_base)]]
    ELSE path

\* C12: with base_path set, set_base_path(new_base) moves the file of every
\* tile under the old base to new_base joined with the path relative to
\* the old base, leaves the other files as they are, maps indexed_files
\* the same way and sets base_path to new_base; base /a/b, file
\* /a/b/c/d.nc and new base /x/y give /x/y/c/d.nc.
C12_Remap ==
    /\ [][(last'.op = "set_base_path" /\ base_path # NoPath) =>
             /\ DOMAIN metadata' = DOMAIN metadata
             /\ \A i \in DOMAIN metadata :
                   metadata'[i].file
                     = Moved(metadata[i].file, base_path, last'.path)
             /\ indexed_files'
                   = {Moved(f, base_path, last'.path) : f \in indexed_files}
             /\ base_path' = last'.path]_vars
    /\ [](RemapPath(<<"a", "b", "c", "d.nc">>, <<"a", "b">>, <<"x", "y">>)
             = <<"x", "y", "c", "d.nc">>)

\* set_base_path has moved the tiles of a file in a subdirectory of the old
\* base and has left a tile that was not under the old base.
C12_Witness ==
    /\ last.op = "set_base_path"
    /\ last.result = "ok"
    /\ \E i \in DOMAIN metadata :
          /\ metadata[i].file = <<"b", "c", "f2">>
    /\ \E j \in DOMAIN metadata :
          /\ metadata[j].file = F3
          /\ metadata[j].time_range = Content(F3).time

---------------------------------------------------------------------------
(* Properties of the auto-save and of the final save.                      *)

\* The file being added brings the counter to the threshold.
ReachesThreshold ==
    autosave_interval > 0 /\ files_since_save + 1 >= autosave_interval

\* The snapshot file holds the catalog as it is after the step.
SnapshotIsCurrent ==
    /\ disk'.kind = "full"
    /\ disk'.data = Snapshot(metadata', file_counter', indexed_files',
                             tile_size', base_path')

C14_AutosaveFailureIsHarmless ==
    [][/\ (last'.op = "add_file" /\ last'.result = "ok" /\ faults' # faults)
             => /\ last'.path \in indexed_files'
                /\ \E i \in DOMAIN metadata' \ DOMAIN metadata :
                      metadata'[i].file = last'.path
                /\ disk' = disk
                /\ ~tmp_exists'
                /\ pc' = pc
                /\ pc = "batch" => pending' = Tail(pending)
                /\ files_since_save' >= autosave_interval'
       /\ (/\ last'.op = "add_file" /\ last'.result = "ok"
           /\ files_since_save >= autosave_interval /\ autosave_interval > 0
           /\ faults' = faults)
             => /\ files_since_save' = 0
                /\ SnapshotIsCurrent]_vars

\* The auto-save of a file has failed after an earlier one had written the
\* snapshot file.
C14_Witness ==
    /\ last.op = "add_file"
    /\ last.result = "ok"
    /\ files_since_save >= autosave_interval
    /\ last.path \in indexed_files
    /\ disk.kind = "full"
    /\ last.path \notin disk.data.indexed_files
    /\ ~tmp_exists

\* C15: when the loop of add_files_from_directory has ended, save() is
\* called if files were added since the last save, and the call returns
\* without writing otherwise; when save() returns the counter is 0 and the
\* snapshot file holds the catalog.
C15_FinalSave ==
    [][/\ (pc = "batch" /\ pending = <<>>) =>
             IF files_since_save > 0
             THEN /\ pc' = "saving"
                  /\ last' = Call("save", NoPath, "running")
             ELSE /\ pc' = "idle"
                  /\ last' = Call("add_files_from_directory", NoPath, "ok")
                  /\ disk' = disk
       /\ (pc = "saving" /\ pc' = "idle" /\ last'.result = "ok")
             => /\ files_since_save' = 0
                /\ SnapshotIsCurrent]_vars

\* The loop of a batch has ended with a file added that no save has
\* written, after an earlier auto-save.
C15_Witness ==
    /\ pc = "batch"
    /\ pending = <<>>
    /\ files_since_save > 0
    /\ last.op = "add_file"
    /\ last.result = "ok"
    /\ disk.kind = "full"
    /\ last.path \notin disk.data.indexed_files

---------------------------------------------------------------------------
(* Properties of the tile ids.                                             *)

\* C16: every id of a tile is below file_counter; on one index the counter
\* never decreases and a new tile gets an id that is not below the counter
\* before, hence no id a tile has or had; load restores the counter of
\* the snapshot.
C16_IdsAreFresh ==
    /\ [](\A i \in DOMAIN metadata : i < file_counter)
    /\ [][/\ last'.op # "load"
               => /\ file_counter' >= file_counter
                  /\ \A i \in DOMAIN metadata' \ DOMAIN metadata :
                        i >= file_counter
          /\ (last'.op = "load" /\ last'.result = "ok")
               => /\ file_counter' = disk.data.file_counter
                  /\ DOMAIN metadata' = DOMAIN disk.data.metadata]_vars

\* After a failed add_file used up an id and the index was saved, a new
\* tile has got an id above those of the snapshot.
C16_Witness ==
    /\ last.op = "add_file"
    /\ last.result = "ok"
    /\ disk.kind = "full"
    /\ \E i \in 0 .. file_counter - 1, j \in DOMAIN metadata :
          /\ i \notin DOMAIN metadata
          /\ i \notin DOMAIN disk.data.metadata
          /\ i < disk.data.file_counter
          /\ j >= disk.data.file_counter

---------------------------------------------------------------------------
(* Properties of base_path and of the batch.                               *)

\* C17 (as the specification states it): base_path is unset until a file
\* has been added; an add_file that fails on a new catalog leaves it unset.
C17_BasePathOfFirstAddedFile ==
    completed = {} => base_path = NoPath

\* C18 (as the specification states it): when add_file fails on a file of
\* a batch that has more files to come, the batch goes on with the next
\* file.
C18_BatchSkipsFailedFile ==
    [][(/\ pc = "batch"
        /\ Len(pending) > 1
        /\ last'.op = "add_file"
        /\ last'.result = "error")
          => (pc' = "batch" /\ pending' = Tail(pending))]_vars

---------------------------------------------------------------------------
(* Properties of load on older snapshots.                                  *)

\* The box of all tiles.
WorldBox == <<-180, 0, 180, 20>>

\* Every tile of a snapshot is in the catalog after the step and query
\* returns it.
TilesRestored(stored) ==
    /\ DOMAIN metadata' = DOMAIN stored
    /\ \A i \in DOMAIN stored :
          /\ metadata'[i].bbox = stored[i].bbox
          /\ metadata'[i].line_range = stored[i].line_range
          /\ metadata'[i].time_range = stored[i].time_range
    /\ Len(Query(metadata', spatial_idx', WorldBox, NoArg, NoArg))
          = Cardinality(DOMAIN stored)
    /\ Range(Query(metadata', spatial_idx', WorldBox, NoArg, NoArg))
          = {Result(metadata'[i]) : i \in DOMAIN stored}

\* C19: load of a snapshot without tile_size gives tile_size 493, without
\* indexed_files the empty set, without base_path no base_path, and in
\* each case the tiles of the snapshot, which query returns; load without
\* a snapshot file fails with "not found" and gives no index.
C19_LoadOfOlderSnapshots ==
    [][last'.op = "load" =>
          /\ disk.kind = "absent"
                => (last'.result = "not_found" /\ UNCHANGED catalog)
          /\ disk.kind = "full"
                => /\ last'.result = "ok"
                   /\ "tile_size" \notin disk.data.keys => tile_size' = 493
                   /\ "indexed_files" \notin disk.data.keys
                         => indexed_files' = {}
                   /\ "base_path" \notin disk.data.keys
                         => base_path' = NoPath
                   /\ TilesRestored(disk.data.metadata)]_vars

\* A snapshot with nothing but the tiles and the counter has been loaded.
C19_Witness ==
    /\ last.op = "load"
    /\ last.result = "ok"
    /\ disk.kind = "full"
    /\ disk.data.keys = {"metadata", "file_counter"}
    /\ tile_size = 493
    /\ indexed_files = {}
    /\ base_path = NoPath
    /\ Cardinality(DOMAIN metadata) = 2

---------------------------------------------------------------------------
(* Properties of the tiles over the steps.                                 *)

\* The tiles of before are tiles of the catalog after the step, each with
\* its line_range, bbox and time_range.
TilesKept(before) ==
    /\ DOMAIN before \subseteq DOMAIN metadata'
    /\ \A i \in DOMAIN before :
          /\ metadata'[i].line_range = before[i].line_range
          /\ metadata'[i].bbox = before[i].bbox
          /\ metadata'[i].time_range = before[i].time_range

\* The files of the tiles of before are their files after the step.
FilesKept(before) ==
    \A i \in DOMAIN before : metadata'[i].file = before[i].file

\* C20: no step removes a tile or changes the line_range, bbox or
\* time_range of a tile; the file of a tile changes in set_base_path only,
\* called on the index or by load with new_base_path on the index it
\* returns, whose tiles are otherwise those of the snapshot.
C20_TilesAreKept ==
    [][IF last'.op = "load" /\ last'.result = "ok"
       THEN /\ TilesKept(disk.data.metadata)
            /\ DOMAIN metadata' = DOMAIN disk.data.metadata
            /\ \/ FilesKept(disk.data.metadata)
               \/ \E b \in NewBases :
                     \A i \in DOMAIN metadata' :
                        metadata'[i].file
                           = RemapPath(disk.data.metadata[i].file,
                                       disk.data.base_path, b)
       ELSE /\ TilesKept(metadata)
            /\ last'.op # "set_base_path" => FilesKept(metadata)]_vars

\* set_base_path has moved the first tile of F1, and the catalog holds the
\* tiles of another file as well.
C20_Witness ==
    /\ last.op = "set_base_path"
    /\ last.result = "ok"
    /\ base_path = <<"b">>
    /\ \E i \in DOMAIN metadata :
          /\ metadata[i].file = <<"b", "f1">>
          /\ metadata[i].time_range[1] = 1
    /\ \E j \in DOMAIN metadata : metadata[j].file # <<"b", "f1">>

---------------------------------------------------------------------------
(* Properties of the line ranges of the tiles.                             *)

\* end - start of a line_range [start, end)
Length(line_range) == line_range[2] - line_range[1]

\* C21: the line_range of every tile is no longer than the tile_size of
\* the catalog.
C21_TilesWithinTileSize ==
    \A i \in DOMAIN metadata : Length(metadata[i].line_range) <= tile_size

\* The tiles a step adds, and their line ranges.
NewTiles == DOMAIN metadata' \ DOMAIN metadata
NewRanges == {metadata'[i].line_range : i \in NewTiles}

\* [0, t), [t, 2t), ... up to n
Partition(n, t) ==
    {<<k * t, Min2((k + 1) * t, n)>> : k \in 0 .. (n - 1) \div t}

\* ranges are pairwise disjoint, cover [0, n) and have t lines each, but
\* for a shorter last one.
Tiling(ranges, n, t) ==
    /\ \A r \in ranges :
          /\ Length(r) > 0
          /\ Length(r) = t \/ (Length(r) < t /\ r[2] = n)
    /\ \A r1, r2 \in ranges : r1 # r2 => (r1[2] <= r2[1] \/ r2[2] <= r1[1])
    /\ UNION {r[1] .. r[2] - 1 : r \in ranges} = 0 .. n - 1

\* C22: add_file of a file of n lines with tile size t makes tiles whose
\* line ranges are [0, t), [t, 2t), ...: disjoint, covering [0, n), of t
\* lines each but for a shorter last one, with ids that grow with start.
C22_TilesPartitionTheFile ==
    [][(tile_size > 0 /\ last'.op = "add_file" /\ last'.result = "ok")
          => /\ NewRanges
                  = Partition(Len(Content(last'.path).lines), tile_size)
             /\ Tiling(NewRanges, Len(Content(last'.path).lines), tile_size)
             /\ \A i \in NewTiles : metadata'[i].file = last'.path
             /\ \A i, j \in NewTiles :
                   i < j => metadata'[i].line_range[1]
                               < metadata'[j].line_range[1]]_vars

\* A file of three lines has been added in tiles of two lines.
C22_Witness ==
    /\ last = Call("add_file", Swath(3), "ok")
    /\ tile_size = 2
    /\ \E i, j \in DOMAIN metadata :
          /\ i < j
          /\ metadata[i].file = Swath(3)
          /\ metadata[i].line_range = <<0, 2>>
          /\ metadata[j].file = Swath(3)
          /\ metadata[j].line_range = <<2, 3>>

---------------------------------------------------------------------------
(* Properties of indexed_files and the tiles.                              *)

\* C23: every file in indexed_files has a tile in the catalog.
C23_IndexedFileHasTile ==
    \A p \in indexed_files : \E i \in DOMAIN metadata : metadata[i].file = p

\* C24: the file of every tile is in indexed_files.
C24_TileFileIsIndexed ==
    \A i \in DOMAIN metadata : metadata[i].file \in indexed_files

\* C25: no two tiles have the same file, line_range and bbox.
C25_NoTileTwice ==
    \A i, j \in DOMAIN metadata :
       (/\ metadata[i].file = metadata[j].file
        /\ metadata[i].line_range = metadata[j].line_range
        /\ metadata[i].bbox = metadata[j].bbox) => i = j

---------------------------------------------------------------------------
(* Properties of set_base_path and the number of files.                    *)

\* The files of the tiles.
TileFiles(md) == {md[i].file : i \in DOMAIN md}

\* C26: set_base_path keeps the number of paths in indexed_files and the
\* number of files of the tiles.
C26_RemapKeepsFilesDistinct ==
    [][last'.op = "set_base_path"
          => /\ Cardinality(indexed_files') = Cardinality(indexed_files)
             /\ Cardinality(TileFiles(metadata'))
                   = Cardinality(TileFiles(metadata))]_vars

===========================================================================
